---- MODULE Spec2Model ----
(***************************************************************************)
(* docker_utils_aba: the helper module of the docker-utils-aba             *)
(* distribution (die, docker_version, pkg_file), modelled as a process     *)
(* that calls the three functions against an environment holding the       *)
(* docker binary and the installed distribution.                           *)
(*                                                                         *)
(* Byte strings and text are sequences of one-character strings; paths     *)
(* are sequences of path tokens (a separator "/" or a name).               *)
(***************************************************************************)
EXTENDS Integers, Sequences, FiniteSets, TLC

\* ---------------------------------------------------------------- bounds

\* docker_version calls followed in one behaviour of Spec
MaxCalls == 3
\* bytes after the banner head in the outputs SpecParse draws
MaxTail == 6
\* tokens of the path fragments SpecPkg draws
MaxFrag == 3
\* characters of the templates, and values, SpecDie draws
MaxFmt == 3
MaxArgs == 2

\* ------------------------------------------------------------- literals

\* the literal the pattern of line 16 starts with
Prefix == <<"D", "o", "c", "k", "e", "r", " ", "v", "e", "r", "s", "i", "o", "n", " ">>

\* the template of line 11, "error: %s\n"
ErrorTemplate == <<"e", "r", "r", "o", "r", ":", " ", "%", "s", "\n">>

\* the template docker_version hands to die (line 19)
Diagnostic == <<"u", "n", "a", "b", "l", "e", " ", "t", "o", " ", "p", "a", "r", "s", "e", " ", "a", " ", "v", "e", "r", "s", "i", "o", "n", " ", "n", "u", "m", "b", "e", "r", " ", "f", "r", "o", "m", " ", "t", "h", "e", " ", "o", "u", "t", "p", "u", "t", " ", "o", "f", " ", "'", "d", "o", "c", "k", "e", "r", " ", "-", "v", "'">>

\* the status die passes to sys.exit (line 12)
ExitStatus == 1

\* the fixed subdirectory of line 25
PkgDir == "docker_utils_aba"

\* ------------------------------------------------- values and results

StrVal(s) == [t |-> "str", s |-> s, n |-> 0]
IntVal(n) == [t |-> "int", s |-> <<>>, n |-> n]

None == [kind |-> "None", val |-> <<>>]
TupleOf(v) == [kind |-> "tuple", val |-> v]
PathOf(p) == [kind |-> "path", val |-> p]

\* ------------------------------------------ int() and str() of Python

Digits == {"0", "1", "2", "3", "4", "5", "6", "7", "8", "9"}

DigitChars == <<"0", "1", "2", "3", "4", "5", "6", "7", "8", "9">>

DigitValue(c) == (CHOOSE i \in 1..10 : DigitChars[i] = c) - 1

\* int(b"...") of a run of ASCII digits: base ten, most significant first
RECURSIVE int(_)
int(ds) ==
    IF ds = <<>> THEN 0
    ELSE 10 * int(SubSeq(ds, 1, Len(ds) - 1)) + DigitValue(ds[Len(ds)])

\* str(n) of a non-negative integer
RECURSIVE StrNat(_)
StrNat(n) ==
    IF n < 10 THEN <<DigitChars[n + 1]>>
    ELSE Append(StrNat(n \div 10), DigitChars[(n % 10) + 1])

str(n) == IF n < 0 THEN <<"-">> \o StrNat(-n) ELSE StrNat(n)

\* -------------------------------------------------- the % operator

FormatOk(text) == [ok |-> TRUE, exc |-> "none", text |-> text]
FormatRaises(e) == [ok |-> FALSE, exc |-> e, text |-> <<>>]

\* the position of the first percent sign of fmt at or after i, or
\* Len(fmt) + 1
NextPercent(fmt, i) ==
    IF \E j \in i..Len(fmt) : fmt[j] = "%"
    THEN CHOOSE j \in i..Len(fmt) :
             fmt[j] = "%" /\ \A h \in i..(j - 1) : fmt[h] # "%"
    ELSE Len(fmt) + 1

\* fmt % k for a tuple k, scanning fmt from position i with k[a] the next
\* value: text up to a percent sign is copied, %% is a percent sign, %s the
\* str() of any value, %d the decimal form of a number; a value is fetched
\* before the conversion character is looked at, and values left over at
\* the end are an error. Flags, widths and the other conversions are not
\* drawn.
RECURSIVE FormatFrom(_, _, _, _, _)
FormatFrom(fmt, k, i, a, acc) ==
    IF i > Len(fmt)
    THEN IF a <= Len(k) THEN FormatRaises("TypeError") ELSE FormatOk(acc)
    ELSE IF fmt[i] # "%"
    THEN FormatFrom(fmt, k, NextPercent(fmt, i), a,
                    acc \o SubSeq(fmt, i, NextPercent(fmt, i) - 1))
    ELSE IF i = Len(fmt) THEN FormatRaises("ValueError")
    ELSE IF fmt[i + 1] = "%" THEN FormatFrom(fmt, k, i + 2, a, Append(acc, "%"))
    ELSE IF a > Len(k) THEN FormatRaises("TypeError")
    ELSE IF fmt[i + 1] = "s"
    THEN FormatFrom(fmt, k, i + 2, a + 1,
                    acc \o (IF k[a].t = "int" THEN str(k[a].n) ELSE k[a].s))
    ELSE IF fmt[i + 1] = "d"
    THEN IF k[a].t = "int"
         THEN FormatFrom(fmt, k, i + 2, a + 1, acc \o str(k[a].n))
         ELSE FormatRaises("TypeError")
    ELSE FormatRaises("ValueError")

Format(fmt, k) == FormatFrom(fmt, k, 1, 1, <<>>)

\* ------------------------------------------------------- re.match

\* a \d that takes one digit only
DigitsEnd_one(s, i) ==
    IF i <= Len(s) /\ s[i] \in Digits THEN i + 1 ELSE i

\* the first position at or after i of s that holds no ASCII digit: \d+ is
\* greedy and what follows it in the pattern is never a digit
RECURSIVE DigitsEnd(_, _)
DigitsEnd(s, i) ==
    IF i <= Len(s) /\ s[i] \in Digits THEN DigitsEnd(s, i + 1) ELSE i

StartsWith(s, lit) == Len(s) >= Len(lit) /\ SubSeq(s, 1, Len(lit)) = lit

NoMatch == [matched |-> FALSE, groups |-> <<>>]

\* re.match(br"Docker version (\d+)\.(\d+)\.(\d+)", out): anchored at the
\* start of out only
re_match(out) ==
    IF ~StartsWith(out, Prefix) THEN NoMatch
    ELSE LET b1 == Len(Prefix) + 1
             e1 == DigitsEnd(out, b1)
         IN  IF e1 = b1 \/ e1 > Len(out) \/ out[e1] # "." THEN NoMatch
             ELSE LET b2 == e1 + 1
                      e2 == DigitsEnd(out, b2)
                  IN  IF e2 = b2 \/ e2 > Len(out) \/ out[e2] # "." THEN NoMatch
                      ELSE LET b3 == e2 + 1
                               e3 == DigitsEnd(out, b3)
                           IN  IF e3 = b3 THEN NoMatch
                               ELSE [matched |-> TRUE,
                                     groups |-> <<SubSeq(out, b1, e1 - 1),
                                                  SubSeq(out, b2, e2 - 1),
                                                  SubSeq(out, b3, e3 - 1)>>]

\* tuple(map(int, mo.groups()))
version_tuple(groups) == [i \in 1..Len(groups) |-> int(groups[i])]

\* ------------------------------------------- os.path.join and split

Sep == "/"

\* posixpath.join(a, b): an absolute b replaces a; otherwise b is appended,
\* after a separator unless a is empty or already ends with one
join2(a, b) ==
    IF b # <<>> /\ b[1] = Sep THEN b
    ELSE IF a = <<>> \/ a[Len(a)] = Sep THEN a \o b
    ELSE a \o <<Sep>> \o b

\* posixpath.join(a, *p)
RECURSIVE os_path_join(_, _)
os_path_join(a, p) ==
    IF p = <<>> THEN a ELSE os_path_join(join2(a, Head(p)), Tail(p))

\* s.split('/'): the pieces between the separators, empty pieces kept
RECURSIVE split(_)
split(s) ==
    IF \A i \in 1..Len(s) : s[i] # Sep THEN <<s>>
    ELSE LET i == CHOOSE j \in 1..Len(s) :
                      s[j] = Sep /\ \A h \in 1..(j - 1) : s[h] # Sep
         IN  <<SubSeq(s, 1, i - 1)>> \o split(SubSeq(s, i + 1, Len(s)))

\* a resource name without the subdirectory
resource_name_flat(path) == path

\* the resource name pkg_file asks for: os.path.join("docker_utils_aba", path)
resource_name(path) == join2(<<PkgDir>>, path)

\* pkg_resources.resource_filename(requirement, name) for a distribution
\* installed at root: the provider joins root with the pieces of name
resource_filename(root, name) ==
    IF name = <<>> THEN root ELSE os_path_join(root, split(name))

\* ----------------------------------------------------- environment

\* what subprocess.check_output(["docker", "-v"]) meets: a binary that
\* prints out and exits 0, no binary, a file that cannot be executed, or a
\* binary that exits non-zero
Bin(status, out) == [status |-> status, out |-> out]

\* a launch whose failures are not raised: whatever was captured comes back
check_output_unchecked(bin) == [ok |-> TRUE, out |-> bin.out, exc |-> "none"]

\* subprocess.check_output: the captured output, or the exception raised
check_output(bin) ==
    IF bin.status = "ok" THEN [ok |-> TRUE, out |-> bin.out, exc |-> "none"]
    ELSE [ok |-> FALSE, out |-> <<>>,
          exc |-> IF bin.status = "missing" THEN "FileNotFoundError"
                  ELSE IF bin.status = "noexec" THEN "PermissionError"
                  ELSE "CalledProcessError"]

\* where the distribution docker-utils-aba is installed, if it is
Installed(root) == [installed |-> TRUE, root |-> root]
NotInstalled == [installed |-> FALSE, root |-> <<>>]

\* ---------------------------------------------------- inputs drawn

RECURSIVE SeqsUpTo(_, _)
SeqsUpTo(S, n) ==
    IF n = 0 THEN {<<>>}
    ELSE LET shorter == SeqsUpTo(S, n - 1)
         IN  shorter \cup {Append(s, x) : s \in {t \in shorter : Len(t) = n - 1}, x \in S}

\* banners of the process model
Banners ==
    { Prefix \o <<"1", ".", "0", ".", "0">>,
      Prefix \o <<"2", "0", ".", "1", "0", ".", "7", ",", " ", "b", "u", "i", "l", "d">>,
      <<"d", "o", "c", "k", "e", "r", " ", "v", "e", "r", "s", "i", "o", "n", ":", " ", "u", "n", "k", "n", "o", "w", "n">> }

DockerStates ==
    {Bin("ok", b) : b \in Banners}
        \cup {Bin(s, <<>>) : s \in {"missing", "noexec", "nonzero"}}

\* heads and tails of the outputs SpecParse draws
Heads ==
    { Prefix,
      <<"d", "o", "c", "k", "e", "r", " ", "v", "e", "r", "s", "i", "o", "n", " ">>,
      <<"D", "o", "c", "k", "e", "r", " ", "v", "e", "r", "s", "i", "o", "n">>,
      <<" ">> \o Prefix }

TailBytes == {"0", "1", ".", "x"}

WideOutputs ==
    {<<>>} \cup {h \o t : h \in Heads, t \in SeqsUpTo(TailBytes, MaxTail)}

Roots == {<<Sep, "opt">>, <<Sep, "usr", Sep, "lib">>}

Layouts == {NotInstalled} \cup {Installed(r) : r \in Roots}

\* fragments of the process model, and the fragments SpecPkg draws
Frags == {<<>>, <<"f">>}

WideFrags == SeqsUpTo({Sep, "f", ".."}, MaxFrag)

\* templates and values handed to die by the calling scripts: those of the
\* process model, and those SpecDie draws
DieTemplates == { <<"z", "%", "s">> }

DieValues == { <<>>, <<StrVal(<<"v">>)>> }

WideTemplates == SeqsUpTo({"%", "s", "d", "z"}, MaxFmt)

WideValues == SeqsUpTo({StrVal(<<"v">>), IntVal(12)}, MaxArgs)

\* ------------------------------------------------------------ state

VARIABLES
    pc,           \* "idle", "die_l11", "die_l12", "exited", "raised"
    stack,        \* the functions of the module that are active
    die_fmt,      \* die's parameter fmt
    die_k,        \* die's parameter k
    stderr,       \* the writes to sys.stderr of this process, in order
    exit_status,  \* <<>> while the process runs, <<n>> after sys.exit(n)
    exc,          \* the exception propagating to the caller, or "none"
    ret,          \* what the last call that returned gave its caller
    docker,       \* the docker binary of the environment
    layout,       \* the installation of the distribution
    spawned,      \* docker -v processes launched so far
    calls,        \* docker_version calls so far
    last,         \* history: the latest docker_version or pkg_file call
    memo          \* history: some earlier docker_version or pkg_file call

vars == <<pc, stack, die_fmt, die_k, stderr, exit_status, exc, ret, docker,
          layout, spawned, calls, last, memo>>

process == <<pc, stack, die_fmt, die_k, stderr, exit_status, exc, ret>>
history == <<spawned, calls, last, memo>>

\* a call as the history keeps it: its inputs (the binary or the layout met,
\* the fragment), its outcome, and at, the docker_version calls begun so far
NoCall ==
    [op |-> "none", bin |-> Bin("none", <<>>), lay |-> NotInstalled,
     path |-> <<>>, result |-> "none", val |-> <<>>, exc |-> "none", at |-> 0]

DvCall(bin, result, val, e) ==
    [op |-> "docker_version", bin |-> bin, lay |-> NotInstalled,
     path |-> <<>>, result |-> result, val |-> val, exc |-> e, at |-> 0]

PkgCall(lay, path, result, val, e) ==
    [op |-> "pkg_file", bin |-> Bin("none", <<>>), lay |-> lay,
     path |-> path, result |-> result, val |-> val, exc |-> e, at |-> 0]

Fresh ==
    /\ pc = "idle"
    /\ stack = <<>>
    /\ die_fmt = <<>>
    /\ die_k = <<>>
    /\ stderr = <<>>
    /\ exit_status = <<>>
    /\ exc = "none"
    /\ ret = None

NoHistory ==
    /\ spawned = 0
    /\ calls = 0
    /\ last = NoCall
    /\ memo = NoCall

Init ==
    /\ Fresh
    /\ NoHistory
    /\ docker \in DockerStates
    /\ layout \in Layouts

\* ---------------------------------------------------------- actions

\* the calling script calls die(fmt, *k)
call_die(fmt, k) ==
    /\ pc = "idle"
    /\ pc' = "die_l11"
    /\ stack' = <<"die">>
    /\ die_fmt' = fmt
    /\ die_k' = k
    /\ UNCHANGED <<stderr, exit_status, exc, ret, docker, layout>>
    /\ UNCHANGED history

\* line 11: sys.stderr.write("error: %s\n" % (fmt % k)); an exception of
\* the inner % leaves the function before anything is written
die_write ==
    /\ pc = "die_l11"
    /\ LET msg == Format(die_fmt, die_k)
       IN  IF msg.ok
           THEN /\ stderr' = Append(stderr, Format(ErrorTemplate, <<StrVal(msg.text)>>).text)
                /\ pc' = "die_l12"
                /\ exc' = exc
           ELSE /\ stderr' = stderr
                /\ pc' = "raised"
                /\ exc' = msg.exc
    /\ UNCHANGED <<stack, die_fmt, die_k, exit_status, ret, docker, layout>>
    /\ UNCHANGED history

\* a die that ends the process with sys.exit(), status 0
die_exit_zero ==
    /\ pc = "die_l12"
    /\ exit_status' = <<0>>
    /\ pc' = "exited"
    /\ UNCHANGED <<stack, die_fmt, die_k, stderr, exc, ret, docker, layout>>
    /\ UNCHANGED history

\* a die that returns after the write: its caller goes on, and
\* docker_version falls off its end
die_returns ==
    /\ pc = "die_l12"
    /\ pc' = "idle"
    /\ stack' = <<>>
    /\ ret' = None
    /\ UNCHANGED <<die_fmt, die_k, stderr, exit_status, exc, docker, layout>>
    /\ UNCHANGED history

\* line 12: sys.exit(1)
die_exit ==
    /\ pc = "die_l12"
    /\ exit_status' = <<ExitStatus>>
    /\ pc' = "exited"
    /\ UNCHANGED <<stack, die_fmt, die_k, stderr, exc, ret, docker, layout>>
    /\ UNCHANGED history

\* lines 15-19 as a function of the binary met: a failed launch propagates,
\* a banner that matches gives the tuple of its three integers, any other
\* banner goes to die
docker_version_call(bin) ==
    LET run == check_output(bin)
        mo == re_match(run.out)
    IN  IF ~run.ok THEN DvCall(bin, "raise", <<>>, run.exc)
        ELSE IF mo.matched
        THEN DvCall(bin, "return", version_tuple(mo.groups), "none")
        ELSE DvCall(bin, "die", <<>>, "none")

\* what a docker_version call that launched n processes and came to call
\* leaves behind
docker_version_ends(call, n) ==
    /\ calls' = calls + 1
    /\ spawned' = spawned + n
    /\ last' = [call EXCEPT !.at = calls + 1]
    /\ IF call.result = "raise"
       THEN /\ pc' = "raised"
            /\ exc' = call.exc
            /\ stack' = <<"docker_version">>
            /\ UNCHANGED <<ret, die_fmt, die_k>>
       ELSE IF call.result = "return"
       THEN /\ ret' = TupleOf(call.val)
            /\ UNCHANGED <<pc, exc, stack, die_fmt, die_k>>
       ELSE /\ pc' = "die_l11"
            /\ stack' = <<"docker_version", "die">>
            /\ die_fmt' = Diagnostic
            /\ die_k' = <<>>
            /\ UNCHANGED <<ret, exc>>
    /\ UNCHANGED <<stderr, exit_status, docker, layout, memo>>

\* a docker_version that launches docker -v again when the launch failed
docker_version_retry ==
    /\ pc = "idle"
    /\ calls < MaxCalls
    /\ docker_version_ends(docker_version_call(docker),
                           IF docker.status = "ok" THEN 1 ELSE 2)

\* a docker_version that keeps the version it returned before
docker_version_cached ==
    /\ pc = "idle"
    /\ calls < MaxCalls
    /\ IF ret.kind = "tuple"
       THEN docker_version_ends(DvCall(docker, "return", ret.val, "none"), 0)
       ELSE docker_version_ends(docker_version_call(docker), 1)

\* lines 14-19: docker_version(), one docker -v launched per call
docker_version ==
    /\ pc = "idle"
    /\ calls < MaxCalls
    /\ docker_version_ends(docker_version_call(docker), 1)

\* lines 23-25 as a function of the layout met and the fragment: the
\* distribution's root joined with the resource name; a distribution that
\* is not installed raises from the lookup
pkg_file_call(lay, path) ==
    IF lay.installed
    THEN PkgCall(lay, path, "return",
                 resource_filename(lay.root, resource_name(path)), "none")
    ELSE PkgCall(lay, path, "raise", <<>>, "DistributionNotFound")

\* what a pkg_file call that came to call leaves behind
pkg_file_ends(call) ==
    /\ last' = [call EXCEPT !.at = calls]
    /\ IF call.result = "return"
       THEN /\ ret' = PathOf(call.val)
            /\ UNCHANGED <<pc, exc, stack>>
       ELSE /\ pc' = "raised"
            /\ exc' = call.exc
            /\ stack' = <<"pkg_file">>
            /\ ret' = ret
    /\ UNCHANGED <<die_fmt, die_k, stderr, exit_status, docker, layout>>
    /\ UNCHANGED <<spawned, calls, memo>>

\* a pkg_file that answers with the path it returned last, whatever the
\* fragment
pkg_file_stateful(path) ==
    /\ pc = "idle"
    /\ IF ret.kind = "path" /\ layout.installed
       THEN pkg_file_ends(PkgCall(layout, path, "return", ret.val, "none"))
       ELSE pkg_file_ends(pkg_file_call(layout, path))

\* lines 22-25: pkg_file(path)
pkg_file(path) ==
    /\ pc = "idle"
    /\ pkg_file_ends(pkg_file_call(layout, path))

\* a calling script is run again: a new interpreter imports the module,
\* which keeps nothing from the process before
restart ==
    /\ pc \in {"exited", "raised"}
    /\ pc' = "idle"
    /\ stack' = <<>>
    /\ die_fmt' = <<>>
    /\ die_k' = <<>>
    /\ stderr' = <<>>
    /\ exit_status' = <<>>
    /\ exc' = "none"
    /\ ret' = None
    /\ UNCHANGED <<docker, layout>>
    /\ UNCHANGED history

\* history only: the latest call is kept, to be compared with a later one
remember ==
    /\ last.op # "none"
    /\ memo' = last
    /\ UNCHANGED process
    /\ UNCHANGED <<docker, layout, spawned, calls, last>>

\* the environment: docker is installed, upgraded, broken or removed
docker_changes ==
    /\ docker' \in DockerStates \ {docker}
    /\ UNCHANGED process
    /\ UNCHANGED layout
    /\ UNCHANGED history

\* the environment: the distribution is installed elsewhere or removed
layout_changes ==
    /\ layout' \in Layouts \ {layout}
    /\ UNCHANGED process
    /\ UNCHANGED docker
    /\ UNCHANGED history

Next ==
    \/ \E fmt \in DieTemplates, k \in DieValues : call_die(fmt, k)
    \/ die_write
    \/ die_exit
    \/ docker_version
    \/ \E path \in Frags : pkg_file(path)
    \/ restart
    \/ remember
    \/ docker_changes
    \/ layout_changes

Spec == Init /\ [][Next]_vars

\* one docker_version call on each output of WideOutputs
InitParse ==
    /\ Fresh
    /\ NoHistory
    /\ docker \in {Bin("ok", out) : out \in WideOutputs}
    /\ layout = NotInstalled

NextParse ==
    \/ calls = 0 /\ docker_version
    \/ die_write
    \/ die_exit

SpecParse == InitParse /\ [][NextParse]_vars

\* one die call on each template and values of WideTemplates, WideValues
NextDie ==
    \/ \E fmt \in WideTemplates, k \in WideValues : call_die(fmt, k)
    \/ die_write
    \/ die_exit

InitDie ==
    /\ Fresh
    /\ NoHistory
    /\ docker = Bin("missing", <<>>)
    /\ layout = NotInstalled

SpecDie == InitDie /\ [][NextDie]_vars

\* one pkg_file call on each fragment of WideFrags
InitPkg ==
    /\ Fresh
    /\ NoHistory
    /\ docker = Bin("missing", <<>>)
    /\ layout \in Layouts

NextPkg == \E path \in WideFrags : last.op = "none" /\ pkg_file(path)

SpecPkg == InitPkg /\ [][NextPkg]_vars

\* ============================================================ claims

\* the value of a run of decimal digits, by place value
DigitOf ==
    "0" :> 0 @@ "1" :> 1 @@ "2" :> 2 @@ "3" :> 3 @@ "4" :> 4 @@
    "5" :> 5 @@ "6" :> 6 @@ "7" :> 7 @@ "8" :> 8 @@ "9" :> 9

RECURSIVE NumberOf(_)
NumberOf(ds) ==
    IF ds = <<>> THEN 0
    ELSE DigitOf[Head(ds)] * 10 ^ (Len(ds) - 1) + NumberOf(Tail(ds))

IsDigitRun(s, from, to) == from <= to /\ \A h \in from..to : s[h] \in Digits

\* the ways to read out as "Docker version " X "." Y "." Z and trailing
\* bytes: <<i, j, e>> with the dots at i and j and Z ending at e
Cuts(out) ==
    IF ~StartsWith(out, Prefix) THEN {}
    ELSE LET p == Len(Prefix)
             n == Len(out)
         IN  { c \in ((p + 1)..n) \X ((p + 1)..n) \X ((p + 1)..n) :
                 /\ c[1] < c[2] /\ c[2] < c[3]
                 /\ out[c[1]] = "." /\ out[c[2]] = "."
                 /\ IsDigitRun(out, p + 1, c[1] - 1)
                 /\ IsDigitRun(out, c[1] + 1, c[2] - 1)
                 /\ IsDigitRun(out, c[2] + 1, c[3]) }

\* the triple (X, Y, Z) of a cut
TripleOf(out, c) ==
    << NumberOf(SubSeq(out, Len(Prefix) + 1, c[1] - 1)),
       NumberOf(SubSeq(out, c[1] + 1, c[2] - 1)),
       NumberOf(SubSeq(out, c[2] + 1, c[3])) >>

\* the cuts whose trailing bytes are empty or begin with a byte that is no
\* decimal digit
WholeCuts(out) ==
    { c \in Cuts(out) : c[3] = Len(out) \/ out[c[3] + 1] \notin Digits }

\* the latest call is a docker_version call whose launch succeeded
LaunchedOk == last.op = "docker_version" /\ last.bin.status = "ok"

\* docker_version returned v and die was not called
ReturnedTriple(v) ==
    /\ last.result = "return"
    /\ last.val = v
    /\ ret = TupleOf(v)
    /\ pc = "idle"
    /\ stack = <<>>
    /\ stderr = <<>>
    /\ exit_status = <<>>

\* the line die writes for docker_version
ExpectedLine == <<"e", "r", "r", "o", "r", ":", " ", "u", "n", "a", "b", "l", "e", " ", "t", "o", " ", "p", "a", "r", "s", "e", " ", "a", " ", "v", "e", "r", "s", "i", "o", "n", " ", "n", "u", "m", "b", "e", "r", " ", "f", "r", "o", "m", " ", "t", "h", "e", " ", "o", "u", "t", "p", "u", "t", " ", "o", "f", " ", "'", "d", "o", "c", "k", "e", "r", " ", "-", "v", "'", "\n">>

ExpectedText == SubSeq(ExpectedLine, 8, Len(ExpectedLine) - 1)

Contains(s, sub) ==
    \E i \in 1..(Len(s) - Len(sub) + 1) : SubSeq(s, i, i + Len(sub) - 1) = sub

C2_MismatchExits ==
    (LaunchedOk /\ Cuts(last.bin.out) = {}) =>
        /\ last.result = "die"
        /\ ret = None
        /\ exc = "none"
        /\ stack = <<"docker_version", "die">>
        /\ \/ pc = "die_l11" /\ stderr = <<>> /\ exit_status = <<>>
                /\ ENABLED die_write
           \/ pc = "die_l12" /\ exit_status = <<>> /\ ENABLED die_exit
                /\ Len(stderr) = 1 /\ Contains(stderr[1], ExpectedText)
           \/ pc = "exited" /\ exit_status = <<1>>
                /\ Len(stderr) = 1 /\ Contains(stderr[1], ExpectedText)

\* the empty output ended the process with status 1
C2_Witness ==
    /\ LaunchedOk
    /\ last.bin.out = <<>>
    /\ pc = "exited"
    /\ exit_status = <<1>>

DieEnded == stack = <<"die">> /\ pc \notin {"die_l11", "die_l12"}

\* C3 as stated: whatever the template and the values, a die call ends
\* with one line beginning "error: " written to stderr and the process
\* exited with status 1, and no other status is ever produced.
C3_AlwaysWritesAndExits ==
    /\ exit_status \in {<<>>, <<1>>}
    /\ DieEnded =>
           /\ pc = "exited"
           /\ exit_status = <<1>>
           /\ Len(stderr) = 1
           /\ StartsWith(stderr[1], <<"e", "r", "r", "o", "r", ":", " ">>)

\* C4 as stated: every call of die goes through the same steps in the same
\* order: line 11 makes exactly one write and leads to line 12, line 12
\* ends the process with a non-zero status and writes nothing, nothing is
\* written once the process has ended, and die never returns to its caller.
C4_WriteThenExit ==
    [][ /\ pc = "die_l11" =>
               /\ pc' = "die_l12"
               /\ Len(stderr') = Len(stderr) + 1
               /\ exit_status' = <<>>
        /\ pc = "die_l12" =>
               /\ pc' = "exited"
               /\ stderr' = stderr
               /\ exit_status' # <<>>
               /\ exit_status'[1] # 0
        /\ pc \in {"exited", "raised"} /\ pc' = pc => stderr' = stderr
        /\ pc \in {"die_l11", "die_l12"} => pc' # "idle"
      ]_vars

\* the exception check_output raises for a binary that cannot be run
LaunchError(status) ==
    CASE status = "missing" -> "FileNotFoundError"
      [] status = "noexec" -> "PermissionError"
      [] status = "nonzero" -> "CalledProcessError"
      [] OTHER -> "none"

\* C5: while a docker_version call is the active or the ended call: if its
\* launch failed, the launch's own exception is propagating to the caller,
\* die was not entered, nothing was written and the process has no exit
\* status; die is entered only for an output that does not read as a
\* version banner; and no call launches a second process.
C5_LaunchFailurePropagates ==
    /\ spawned <= calls
    /\ (last.op = "docker_version" /\ stack # <<>> /\ stack[1] = "docker_version") =>
           IF last.bin.status # "ok"
           THEN /\ pc = "raised"
                /\ stack = <<"docker_version">>
                /\ exc = LaunchError(last.bin.status)
                /\ stderr = <<>>
                /\ exit_status = <<>>
                /\ die_fmt = <<>>
           ELSE /\ stack = <<"docker_version", "die">>
                /\ Cuts(last.bin.out) = {}
                /\ pc # "raised"

\* a docker that exits non-zero left its exception with the caller
C5_Witness ==
    /\ last.op = "docker_version"
    /\ last.bin.status = "nonzero"
    /\ pc = "raised"
    /\ exc = "CalledProcessError"
    /\ stack = <<"docker_version">>

\* two pkg_file calls with the same fragment under the same layout
SamePkgInputs ==
    /\ memo.op = "pkg_file"
    /\ last.op = "pkg_file"
    /\ memo.path = last.path
    /\ memo.lay = last.lay

\* C6: two pkg_file calls with the same fragment under the same layout have
\* the same outcome and the same path, whatever was called in between.
C6_SameFragmentSamePath ==
    SamePkgInputs =>
        /\ memo.result = last.result
        /\ memo.val = last.val
        /\ memo.exc = last.exc

\* the same fragment resolved twice, a docker_version call in between
C6_Witness ==
    /\ SamePkgInputs
    /\ memo.at < last.at
    /\ last.result = "return"
    /\ last.path # <<>>

\* the names of a path, its separators dropped
Names(p) == SelectSeq(p, LAMBDA t : t # Sep)

\* path is root, the subdirectory and the fragment combined: it lies under
\* <root>/docker_utils_aba/ and holds their names in that order
Combined(path, root, frag) ==
    /\ StartsWith(path, root \o <<Sep, PkgDir, Sep>>)
    /\ Names(path) = Names(root) \o <<PkgDir>> \o Names(frag)

PkgReturned == last.op = "pkg_file" /\ last.result = "return"

\* C7 as stated: for every fragment the returned path is the root, the
\* subdirectory docker_utils_aba and the fragment combined, so it lies
\* under <root>/docker_utils_aba/.
C7_EveryFragment ==
    PkgReturned => Combined(last.val, last.lay.root, last.path)

\* C7 amended: for every fragment that does not begin with a separator
\* (the empty one included) the returned path is the root, the
\* subdirectory and the fragment combined, and begins with
\* <root>/docker_utils_aba/.
C7_RelativeFragment ==
    (PkgReturned /\ (last.path = <<>> \/ last.path[1] # Sep)) =>
        Combined(last.val, last.lay.root, last.path)

\* a fragment of two names was resolved
C7_Witness ==
    /\ PkgReturned
    /\ last.path = <<"f", Sep, "f">>

\* C8: every docker_version call launches exactly one docker -v, nothing
\* else launches any, so the launches number the calls; and what a call
\* gives is read from the binary as it is at that call.
C8_OneProcessPerCall ==
    /\ spawned = calls
    /\ [][ /\ calls' # calls =>
                  /\ calls' = calls + 1
                  /\ spawned' = spawned + 1
                  /\ last'.bin = docker
                  /\ docker.status = "ok" =>
                         /\ \A c \in WholeCuts(docker.out) :
                                ret' = TupleOf(TripleOf(docker.out, c))
                         /\ Cuts(docker.out) = {} => pc' = "die_l11"
           /\ calls' = calls => spawned' = spawned
         ]_vars

\* a later call returned another version than an earlier one
C8_Witness ==
    /\ memo.op = "docker_version"
    /\ last.op = "docker_version"
    /\ memo.result = "return"
    /\ last.result = "return"
    /\ memo.val # last.val
    /\ memo.at < last.at
    /\ spawned >= 2

\* two docker_version calls for which the binary printed the same output
SameOutput ==
    /\ memo.op = "docker_version"
    /\ last.op = "docker_version"
    /\ memo.bin.status = "ok"
    /\ last.bin.status = "ok"
    /\ memo.bin.out = last.bin.out

\* C9: two docker_version calls for which the binary printed the same
\* output have the same outcome: the same triple, or both go to die, whose
\* process ends with status 1.
C9_SameOutputSameOutcome ==
    /\ SameOutput =>
           /\ memo.result = last.result
           /\ memo.val = last.val
    /\ (last.op = "docker_version" /\ last.result = "die" /\ pc = "exited") =>
           exit_status = <<1>>

\* the same banner was parsed by two calls, another call in between
C9_Witness ==
    /\ SameOutput
    /\ memo.at + 1 < last.at
    /\ last.result = "return"

====
